---- MODULE Spec2Model ----
(***************************************************************************)
(* A model of the A&M Wedding REST service (src/main.py): three worksheets *)
(* of a remote spreadsheet ("rsvp", "gifts", "testimonials") and the       *)
(* request handlers that read and write them.  Every remote call of a      *)
(* handler (get_worksheet, row_values, update, append_row(s), find,        *)
(* update_cell, get_all_records) is one atomic step; two requests run      *)
(* concurrently and interleave at these steps.                             *)
(*                                                                         *)
(* A worksheet is the sequence of its non-empty rows, a row the sequence   *)
(* of its cells, a cell the text the sheet displays for it: True/False are *)
(* shown as "TRUE"/"FALSE", None as the empty cell "".                     *)
(***************************************************************************)
EXTENDS Integers, Sequences, FiniteSets, TLC

VARIABLES exists, sheet, now, op, pc, arg, loc, res

vars == <<exists, sheet, now, op, pc, arg, loc, res>>

(***************************** bounds **************************************)
\* the clock is read at most MaxClock times
MaxClock == 3
\* at most MaxGifts gift rows are ever registered
MaxGifts == 2
\* at most MaxRsvps RSVP rows and MaxTestimonials testimonial rows
MaxRsvps == 2
MaxTestimonials == 1
\* the gift sheets of SpecPage hold at most MaxPageRows gifts
MaxPageRows == 3
\* list_available is called with limit in 1..MaxLimit
MaxLimit == 2

(************************** program constants ******************************)
\* add_worksheet(title=sheet_name, rows="100", cols="20")
DefaultRows == 100
\* update_cell(row_index, 4, False), (row_index, 5, ...), (row_index, 6, ...)
ColAvailable == 4
ColPurchased == 5
ColUpdatedAt == 6

Procs == {"a", "b"}
Worksheets == {"rsvp", "gifts", "testimonials"}

RsvpHeaders == <<"full_name", "status", "phone", "companions", "created_at">>
GiftHeaders == <<"id", "name", "image_url", "available", "purchased", "updated_at">>
TestimonialHeaders == <<"full_name", "message", "created_at">>

(***************************** values **************************************)
\* Gift names in ascending string order; Python compares names as strings.
Names == <<"Blender", "Kettle", "Toaster">>
NameRank(n) == CHOOSE i \in 1..Len(Names) : Names[i] = n
NameLe(a, b) == NameRank(a) <= NameRank(b)

\* GiftRequest(name, image_url)
GiftRequest(n) == [name |-> n, image_url |-> "img/" \o n]

\* str(uuid.uuid4()): the k-th identifier generated
NewUuid(k) == "uuid-" \o ToString(k)
\* str(datetime.now(tz=UTC)) at clock reading t
TimeStr(t) == "t" \o ToString(t)
\* what USER_ENTERED shows for a Python bool and for None
BoolCell(b) == IF b THEN "TRUE" ELSE "FALSE"
NoneCell == ""

Buyers == {"Ana", "Bob"}

NoArg == [none |-> TRUE]
NoLoc == [row |-> 0, step |-> 0, ts |-> 0, vals |-> <<>>]
NoRes == [status |-> 0]

(*************************** the sheet store *******************************)
\* get_worksheet: the worksheet is created, empty, when it does not exist
GetWorksheet(w) == exists' = exists \cup {w}

\* ws.row_count: the grid's rows, 100 on creation, grown by appends
RowCount(s) == IF Len(s) > DefaultRows THEN Len(s) ELSE DefaultRows
\* ws.row_values(i)
RowValues(s, i) == IF i \in 1..Len(s) THEN s[i] ELSE <<>>
\* a header check that looks at the grid's size only
HeaderMissing_RowCountOnly(s) == RowCount(s) < 2
\* ws.row_count < 2 or not ws.row_values(1)
HeaderMissing(s) == RowCount(s) < 2 \/ RowValues(s, 1) = <<>>
\* ws.update([headers]): writes the range starting at A1
UpdateHeaders(s, headers) == IF Len(s) = 0 THEN <<headers>> ELSE [s EXCEPT ![1] = headers]
\* rows written below the header instead of appended after the table
AppendRows_Overwrite(s, rows) == IF Len(s) = 0 THEN rows ELSE <<Head(s)>> \o rows
\* ws.append_row / ws.append_rows: after the last row of the table
AppendRows(s, rows) == s \o rows
\* ws.update_cell(row, col, value)
UpdateCell(s, row, col, value) == [s EXCEPT ![row][col] = value]
\* ws.find(query, in_column=col): the first row whose cell matches, 0 for None
Find(s, query, col) ==
    IF \E i \in 1..Len(s) : s[i][col] = query
    THEN CHOOSE i \in 1..Len(s) : s[i][col] = query /\ \A j \in 1..(i - 1) : s[j][col] # query
    ELSE 0
\* ws.get_all_records(): the rows below the header row
GetAllRecords(s) == IF Len(s) < 2 THEN <<>> ELSE SubSeq(s, 2, Len(s))
\* record[key], the header row naming the columns
Field(headers, row, key) == row[CHOOSE i \in 1..Len(headers) : headers[i] = key]
\* row_to_dict(headers, row) followed by GiftPublic(id=, name=, image_url=)
GiftPublic(headers, row) ==
    [id |-> Field(headers, row, "id"), name |-> Field(headers, row, "name"),
     image_url |-> Field(headers, row, "image_url")]

(*************************** list_available ********************************)
\* Python's s[start:end] for any integers start and end
PyIndex(n, i) == IF i < 0 THEN (IF i + n < 0 THEN 0 ELSE i + n) ELSE (IF i > n THEN n ELSE i)
PySlice(s, start, end) ==
    LET a == PyIndex(Len(s), start)
        b == PyIndex(Len(s), end)
    IN  IF a < b THEN SubSeq(s, a + 1, b) ELSE <<>>

\* [record for record in records if record.get("available") == "TRUE"]
RECURSIVE AvailableGifts(_, _)
AvailableGifts(headers, records) ==
    IF records = <<>> THEN <<>>
    ELSE LET rest == AvailableGifts(headers, Tail(records))
         IN  IF Field(headers, Head(records), "available") = "TRUE"
             THEN <<Head(records)>> \o rest ELSE rest

\* list.sort(key=lambda x: x['name']): a stable sort
RECURSIVE InsertByName(_, _, _)
InsertByName(headers, r, sorted) ==
    IF sorted = <<>> THEN <<r>>
    ELSE IF NameLe(Field(headers, Head(sorted), "name"), Field(headers, r, "name"))
         THEN <<Head(sorted)>> \o InsertByName(headers, r, Tail(sorted))
         ELSE <<r>> \o sorted
RECURSIVE SortByName(_, _)
SortByName(headers, records) ==
    IF records = <<>> THEN <<>>
    ELSE InsertByName(headers, records[Len(records)],
                      SortByName(headers, SubSeq(records, 1, Len(records) - 1)))

\* a page slice that counts pages from zero
ListAvailableGifts_ZeroBased(s, page, limit) ==
    LET headers == RowValues(s, 1)
        available_gifts == SortByName(headers, AvailableGifts(headers, GetAllRecords(s)))
        start == page * limit
        end == start + limit
        paginated_gifts == PySlice(available_gifts, start, end)
    IN  [i \in 1..Len(paginated_gifts) |-> GiftPublic(headers, paginated_gifts[i])]
\* the body of list_available_gifts after get_worksheet
ListAvailableGifts(s, page, limit) ==
    LET headers == RowValues(s, 1)
        available_gifts == SortByName(headers, AvailableGifts(headers, GetAllRecords(s)))
        start == (page - 1) * limit
        end == start + limit
        paginated_gifts == PySlice(available_gifts, start, end)
    IN  [i \in 1..Len(paginated_gifts) |-> GiftPublic(headers, paginated_gifts[i])]

\* get_gift_by_id on an unchanging sheet: find, row_values, row_to_dict
GetGiftById(s, id) ==
    LET cell == Find(s, id, 1)
    IN  IF cell = 0 THEN [status |-> 404]
        ELSE [status |-> 200, body |-> GiftPublic(RowValues(s, 1), RowValues(s, cell))]

(************************** requests in flight *****************************)
\* a worker is free when it serves no request
Free(p) == pc[p] \in {"idle", "done"}

\* clock readings a request in flight has still to make
ClockReads(p) ==
    IF Free(p) THEN 0
    ELSE IF op[p] = "register_gifts" THEN Len(arg[p].gifts)
    ELSE IF op[p] \in {"update_gift_purchased", "register_rsvp", "register_testimonial"} THEN 1
    ELSE 0
\* rows a request in flight has still to append to worksheet w
RowsToAppend(p, w) ==
    IF Free(p) THEN 0
    ELSE IF op[p] = "register_gifts" /\ w = "gifts" THEN Len(arg[p].gifts)
    ELSE IF op[p] = "register_rsvp" /\ w = "rsvp" THEN 1
    ELSE IF op[p] = "register_testimonial" /\ w = "testimonials" THEN 1
    ELSE 0
RECURSIVE SumOver(_, _, _)
SumOver(F(_, _), S, w) ==
    IF S = {} THEN 0
    ELSE LET p == CHOOSE q \in S : TRUE IN F(p, w) + SumOver(F, S \ {p}, w)
ClockReadsOf(p, w) == ClockReads(p)
\* the model's bounds: the clock and the rows, requests in flight counted
ClockLeft(k) == now + SumOver(ClockReadsOf, Procs, "") + k <= MaxClock
DataRows(s) == IF Len(s) = 0 THEN 0 ELSE Len(s) - 1
RowsLeft(w, k, max) == DataRows(sheet[w]) + SumOver(RowsToAppend, Procs, w) + k <= max

Start(p, o, a, next) ==
    /\ Free(p)
    /\ op' = [op EXCEPT ![p] = o]
    /\ arg' = [arg EXCEPT ![p] = a]
    /\ loc' = [loc EXCEPT ![p] = NoLoc]
    /\ res' = [res EXCEPT ![p] = NoRes]
    /\ pc' = [pc EXCEPT ![p] = next]

Respond(p, r) ==
    /\ pc' = [pc EXCEPT ![p] = "done"]
    /\ res' = [res EXCEPT ![p] = r]

(***************************** gift handler ********************************)
\* the rows register_gifts builds: Gift(name, image_url, updated_at=now)
GiftRows(gifts, firstId, firstTime) ==
    [i \in 1..Len(gifts) |->
        <<NewUuid(firstId + i - 1), gifts[i].name, gifts[i].image_url,
          BoolCell(TRUE), NoneCell, TimeStr(firstTime + i)>>]

\* the request bodies of register_gifts: one gift, or two in descending name order
GiftBatches == {<<GiftRequest("Toaster")>>, <<GiftRequest("Toaster"), GiftRequest("Blender")>>}

\* register_gifts: ws = get_worksheet("gifts")
RegisterGiftsOpen(p, gifts) ==
    /\ ClockLeft(Len(gifts)) /\ RowsLeft("gifts", Len(gifts), MaxGifts)
    /\ Start(p, "register_gifts", [gifts |-> gifts], "check")
    /\ GetWorksheet("gifts")
    /\ UNCHANGED <<sheet, now>>

\* register_gifts: ws.append_rows(rows); return the count
RegisterGiftsAppend(p) ==
    /\ op[p] = "register_gifts" /\ pc[p] = "append"
    /\ sheet' = [sheet EXCEPT !["gifts"] =
                    AppendRows(@, GiftRows(arg[p].gifts, DataRows(@) + 1, now))]
    /\ now' = now + Len(arg[p].gifts)
    /\ Respond(p, [status |-> 201, count |-> Len(arg[p].gifts)])
    /\ UNCHANGED <<exists, op, arg, loc>>

\* update_gift_purchased: ws = get_worksheet("gifts")
UpdateGiftPurchasedOpen(p, id, purchased) ==
    /\ ClockLeft(1)
    /\ Start(p, "update_gift_purchased", [id |-> id, purchased |-> purchased], "find")
    /\ GetWorksheet("gifts")
    /\ UNCHANGED <<sheet, now>>

\* a lookup that rejects a gift whose available cell is no longer "TRUE"
UpdateGiftPurchasedFind_RejectsPurchased(p) ==
    /\ op[p] = "update_gift_purchased" /\ pc[p] = "find"
    /\ LET cell == Find(sheet["gifts"], arg[p].id, 1)
       IN  IF cell = 0
           THEN Respond(p, [status |-> 404]) /\ UNCHANGED loc
           ELSE IF sheet["gifts"][cell][ColAvailable] # "TRUE"
           THEN Respond(p, [status |-> 409]) /\ UNCHANGED loc
           ELSE /\ loc' = [loc EXCEPT ![p].row = cell]
                /\ pc' = [pc EXCEPT ![p] = "cell4"]
                /\ UNCHANGED res
    /\ UNCHANGED <<exists, sheet, now, op, arg>>
\* cell = ws.find(str(purchase.id), in_column=1); 404 when there is none
UpdateGiftPurchasedFind(p) ==
    /\ op[p] = "update_gift_purchased" /\ pc[p] = "find"
    /\ LET cell == Find(sheet["gifts"], arg[p].id, 1)
       IN  IF cell = 0
           THEN Respond(p, [status |-> 404]) /\ UNCHANGED loc
           ELSE /\ loc' = [loc EXCEPT ![p].row = cell]
                /\ pc' = [pc EXCEPT ![p] = "cell4"]
                /\ UNCHANGED res
    /\ UNCHANGED <<exists, sheet, now, op, arg>>

\* an update of the available cell that writes True
UpdateAvailable_WritesTrue(p) ==
    /\ op[p] = "update_gift_purchased" /\ pc[p] = "cell4"
    /\ sheet' = [sheet EXCEPT !["gifts"] = UpdateCell(@, loc[p].row, ColAvailable, BoolCell(TRUE))]
    /\ pc' = [pc EXCEPT ![p] = "cell5"]
    /\ UNCHANGED <<exists, now, op, arg, loc, res>>
\* ws.update_cell(row_index, 4, False)
UpdateAvailable(p) ==
    /\ op[p] = "update_gift_purchased" /\ pc[p] = "cell4"
    /\ sheet' = [sheet EXCEPT !["gifts"] = UpdateCell(@, loc[p].row, ColAvailable, BoolCell(FALSE))]
    /\ pc' = [pc EXCEPT ![p] = "cell5"]
    /\ UNCHANGED <<exists, now, op, arg, loc, res>>

\* ws.update_cell(row_index, 5, purchase.purchased)
UpdatePurchased(p) ==
    /\ op[p] = "update_gift_purchased" /\ pc[p] = "cell5"
    /\ sheet' = [sheet EXCEPT !["gifts"] = UpdateCell(@, loc[p].row, ColPurchased, arg[p].purchased)]
    /\ pc' = [pc EXCEPT ![p] = "cell6"]
    /\ UNCHANGED <<exists, now, op, arg, loc, res>>

\* a timestamp written one column to the left
UpdateUpdatedAt_WrongColumn(p) ==
    /\ op[p] = "update_gift_purchased" /\ pc[p] = "cell6"
    /\ now' = now + 1
    /\ sheet' = [sheet EXCEPT !["gifts"] = UpdateCell(@, loc[p].row, ColPurchased, TimeStr(now'))]
    /\ loc' = [loc EXCEPT ![p].ts = now']
    /\ Respond(p, [status |-> 202])
    /\ UNCHANGED <<exists, op, arg>>
\* ws.update_cell(row_index, 6, str(datetime.now(tz=UTC))); return the ack
UpdateUpdatedAt(p) ==
    /\ op[p] = "update_gift_purchased" /\ pc[p] = "cell6"
    /\ now' = now + 1
    /\ sheet' = [sheet EXCEPT !["gifts"] = UpdateCell(@, loc[p].row, ColUpdatedAt, TimeStr(now'))]
    /\ loc' = [loc EXCEPT ![p].ts = now']
    /\ Respond(p, [status |-> 202])
    /\ UNCHANGED <<exists, op, arg>>

\* a failure handler that puts the available cell back
UpdateCellFails_Rollback(p) ==
    /\ op[p] = "update_gift_purchased" /\ pc[p] \in {"cell4", "cell5", "cell6"}
    /\ loc' = [loc EXCEPT ![p].step = CASE pc[p] = "cell4" -> 1 [] pc[p] = "cell5" -> 2 [] OTHER -> 3]
    /\ sheet' = [sheet EXCEPT !["gifts"] = UpdateCell(@, loc[p].row, ColAvailable, BoolCell(TRUE))]
    /\ Respond(p, [status |-> 500])
    /\ UNCHANGED <<exists, now, op, arg>>
\* an update_cell call the remote store rejects: the exception is not caught,
\* the request ends with a server error and nothing is undone
UpdateCellFails(p) ==
    /\ op[p] = "update_gift_purchased" /\ pc[p] \in {"cell4", "cell5", "cell6"}
    /\ loc' = [loc EXCEPT ![p].step = CASE pc[p] = "cell4" -> 1 [] pc[p] = "cell5" -> 2 [] OTHER -> 3]
    /\ Respond(p, [status |-> 500])
    /\ UNCHANGED <<exists, sheet, now, op, arg>>

\* list_available_gifts: ws = get_worksheet("gifts")
ListAvailableGiftsOpen(p, page, limit) ==
    /\ Start(p, "list_available_gifts", [page |-> page, limit |-> limit], "records")
    /\ GetWorksheet("gifts")
    /\ UNCHANGED <<sheet, now>>

\* records = ws.get_all_records(); filter, sort, slice, project
ListAvailableGiftsRecords(p) ==
    /\ op[p] = "list_available_gifts" /\ pc[p] = "records"
    /\ Respond(p, [status |-> 200,
                   body |-> ListAvailableGifts(sheet["gifts"], arg[p].page, arg[p].limit)])
    /\ UNCHANGED <<exists, sheet, now, op, arg, loc>>

\* get_gift_by_id: ws = get_worksheet("gifts")
GetGiftByIdOpen(p, id) ==
    /\ Start(p, "get_gift_by_id", [id |-> id], "find")
    /\ GetWorksheet("gifts")
    /\ UNCHANGED <<sheet, now>>

\* cell = ws.find(id, in_column=1); 404 when there is none
GetGiftByIdFind(p) ==
    /\ op[p] = "get_gift_by_id" /\ pc[p] = "find"
    /\ LET cell == Find(sheet["gifts"], arg[p].id, 1)
       IN  IF cell = 0
           THEN Respond(p, [status |-> 404]) /\ UNCHANGED loc
           ELSE /\ loc' = [loc EXCEPT ![p].row = cell]
                /\ pc' = [pc EXCEPT ![p] = "row"]
                /\ UNCHANGED res
    /\ UNCHANGED <<exists, sheet, now, op, arg>>

\* row = ws.row_values(cell.row)
GetGiftByIdRow(p) ==
    /\ op[p] = "get_gift_by_id" /\ pc[p] = "row"
    /\ loc' = [loc EXCEPT ![p].vals = RowValues(sheet["gifts"], loc[p].row)]
    /\ pc' = [pc EXCEPT ![p] = "headers"]
    /\ UNCHANGED <<exists, sheet, now, op, arg, res>>

\* headers = ws.row_values(1); row_to_dict; GiftPublic
GetGiftByIdHeaders(p) ==
    /\ op[p] = "get_gift_by_id" /\ pc[p] = "headers"
    /\ Respond(p, [status |-> 200, body |-> GiftPublic(RowValues(sheet["gifts"], 1), loc[p].vals)])
    /\ UNCHANGED <<exists, sheet, now, op, arg, loc>>

(***************************** RSVP handler ********************************)
\* Optional[List[Companion]]: None, or a list (which may be empty)
None == [some |-> FALSE, list |-> <<>>]
Some(l) == [some |-> TRUE, list |-> l]
Companion(n, t) == [full_name |-> n, person |-> t]
CompanionLists ==
    {<<>>, <<Companion("Lia", "child")>>, <<Companion("Rui", "adult"), Companion("Lia", "child")>>}

\* json.dumps of one c.model_dump()
JsonObject(c) ==
    "{\"full_name\": \"" \o c.full_name \o "\", \"person\": \"" \o c.person \o "\"}"
RECURSIVE JsonItems(_)
JsonItems(l) ==
    IF Len(l) = 0 THEN ""
    ELSE IF Len(l) = 1 THEN JsonObject(l[1])
    ELSE JsonObject(l[1]) \o ", " \o JsonItems(Tail(l))
\* json.dumps([c.model_dump() for c in companions])
JsonDumps(l) == "[" \o JsonItems(l) \o "]"
\* json.loads: the list whose JSON text this is
JsonLoads(text) == CHOOSE l \in CompanionLists : JsonDumps(l) = text

\* a Python list is true when it is not empty, None is false
Truthy(c) == c.some /\ Len(c.list) > 0

Phones == {5511}
\* numericise: the integer a cell of digits shows
ToInt(cell) == CHOOSE n \in Phones : ToString(n) = cell

RsvpRequests ==
    {[full_name |-> "Eva", status |-> st, phone |-> 5511, companions |-> c] :
        st \in {"confirmed", "declined"}, c \in {None} \cup {Some(l) : l \in CompanionLists}}

\* companions_json and row of register_rsvp
RsvpRow(rsvp_data, t) ==
    LET companions_json ==
            IF Truthy(rsvp_data.companions) THEN JsonDumps(rsvp_data.companions.list) ELSE NoneCell
    IN  <<rsvp_data.full_name, rsvp_data.status, ToString(rsvp_data.phone), companions_json, TimeStr(t)>>

\* the loop of list_rsvps over the records
RECURSIVE FilterRsvps(_, _, _)
FilterRsvps(headers, records, status) ==
    IF records = <<>> THEN <<>>
    ELSE LET record == Head(records)
             cell == Field(headers, record, "companions")
             rsvp == [full_name |-> Field(headers, record, "full_name"),
                      status |-> Field(headers, record, "status"),
                      phone |-> ToInt(Field(headers, record, "phone")),
                      companions |-> IF cell # "" THEN Some(JsonLoads(cell)) ELSE None,
                      created_at |-> Field(headers, record, "created_at")]
             rest == FilterRsvps(headers, Tail(records), status)
         IN  IF Field(headers, record, "status") = status THEN <<rsvp>> \o rest ELSE rest

\* the body of list_rsvps after get_worksheet
ListRsvps(s, status) == FilterRsvps(RowValues(s, 1), GetAllRecords(s), status)

\* register_rsvp: ws = get_worksheet("rsvp")
RegisterRsvpOpen(p, rsvp_data) ==
    /\ ClockLeft(1) /\ RowsLeft("rsvp", 1, MaxRsvps)
    /\ Start(p, "register_rsvp", [rsvp_data |-> rsvp_data], "check")
    /\ GetWorksheet("rsvp")
    /\ UNCHANGED <<sheet, now>>

\* register_rsvp: ws.append_row(row); return the ack
RegisterRsvpAppend(p) ==
    /\ op[p] = "register_rsvp" /\ pc[p] = "append"
    /\ now' = now + 1
    /\ sheet' = [sheet EXCEPT !["rsvp"] = AppendRows(@, <<RsvpRow(arg[p].rsvp_data, now')>>)]
    /\ Respond(p, [status |-> 201])
    /\ UNCHANGED <<exists, op, arg, loc>>

\* list_rsvps: ws = get_worksheet("rsvp")
ListRsvpsOpen(p, status) ==
    /\ Start(p, "list_rsvps", [status |-> status], "records")
    /\ GetWorksheet("rsvp")
    /\ UNCHANGED <<sheet, now>>

\* records = ws.get_all_records(); filter by status, decode companions
ListRsvpsRecords(p) ==
    /\ op[p] = "list_rsvps" /\ pc[p] = "records"
    /\ Respond(p, [status |-> 200, body |-> ListRsvps(sheet["rsvp"], arg[p].status)])
    /\ UNCHANGED <<exists, sheet, now, op, arg, loc>>

(************************** testimonial handler ****************************)
TestimonialRequests == {[full_name |-> "Eva", message |-> "Parabens"]}

\* register_testimonial: ws = get_worksheet("testimonials")
RegisterTestimonialOpen(p, testimonial) ==
    /\ ClockLeft(1) /\ RowsLeft("testimonials", 1, MaxTestimonials)
    /\ Start(p, "register_testimonial", [testimonial |-> testimonial], "check")
    /\ GetWorksheet("testimonials")
    /\ UNCHANGED <<sheet, now>>

\* register_testimonial: ws.append_row(row); return the ack
RegisterTestimonialAppend(p) ==
    /\ op[p] = "register_testimonial" /\ pc[p] = "append"
    /\ now' = now + 1
    /\ sheet' = [sheet EXCEPT !["testimonials"] =
                    AppendRows(@, <<<<arg[p].testimonial.full_name, arg[p].testimonial.message, TimeStr(now')>>>>)]
    /\ Respond(p, [status |-> 201])
    /\ UNCHANGED <<exists, op, arg, loc>>

\* list_testimonials: ws = get_worksheet("testimonials")
ListTestimonialsOpen(p, page, limit) ==
    /\ Start(p, "list_testimonials", [page |-> page, limit |-> limit], "records")
    /\ GetWorksheet("testimonials")
    /\ UNCHANGED <<sheet, now>>

\* records = ws.get_all_records(); records[start:end]
ListTestimonialsRecords(p) ==
    /\ op[p] = "list_testimonials" /\ pc[p] = "records"
    /\ LET start == (arg[p].page - 1) * arg[p].limit
           end == start + arg[p].limit
       IN  Respond(p, [status |-> 200,
                       body |-> PySlice(GetAllRecords(sheet["testimonials"]), start, end)])
    /\ UNCHANGED <<exists, sheet, now, op, arg, loc>>

(*********************** the header of a worksheet *************************)
WorksheetOf(o) ==
    CASE o = "register_rsvp" -> "rsvp"
      [] o = "register_gifts" -> "gifts"
      [] OTHER -> "testimonials"
HeadersOf(w) ==
    CASE w = "rsvp" -> RsvpHeaders
      [] w = "gifts" -> GiftHeaders
      [] OTHER -> TestimonialHeaders
Registers == {"register_rsvp", "register_gifts", "register_testimonial"}

\* if ws.row_count < 2 or not ws.row_values(1):
RegisterCheckHeader(p) ==
    /\ op[p] \in Registers /\ pc[p] = "check"
    /\ pc' = [pc EXCEPT ![p] = IF HeaderMissing(sheet[WorksheetOf(op[p])]) THEN "header" ELSE "append"]
    /\ UNCHANGED <<exists, sheet, now, op, arg, loc, res>>

\* ws.update([headers])
RegisterWriteHeader(p) ==
    /\ op[p] \in Registers /\ pc[p] = "header"
    /\ sheet' = [sheet EXCEPT ![WorksheetOf(op[p])] = UpdateHeaders(@, HeadersOf(WorksheetOf(op[p])))]
    /\ pc' = [pc EXCEPT ![p] = "append"]
    /\ UNCHANGED <<exists, now, op, arg, loc, res>>

(**************************** specifications *******************************)
\* no worksheet exists yet, no request is in flight
Init ==
    /\ exists = {}
    /\ sheet = [w \in Worksheets |-> <<>>]
    /\ now = 0
    /\ op = [p \in Procs |-> "none"]
    /\ pc = [p \in Procs |-> "idle"]
    /\ arg = [p \in Procs |-> NoArg]
    /\ loc = [p \in Procs |-> NoLoc]
    /\ res = [p \in Procs |-> NoRes]

\* identifiers a client may send: a gift's once it is registered, no gift's before
GiftIds == {NewUuid(k) : k \in 1..MaxGifts}

GiftsNext ==
    \E p \in Procs :
        \/ \E gifts \in GiftBatches : RegisterGiftsOpen(p, gifts)
        \/ RegisterCheckHeader(p)
        \/ RegisterWriteHeader(p)
        \/ RegisterGiftsAppend(p)
        \/ \E id \in GiftIds, purchased \in Buyers : UpdateGiftPurchasedOpen(p, id, purchased)
        \/ UpdateGiftPurchasedFind(p)
        \/ UpdateAvailable(p)
        \/ UpdatePurchased(p)
        \/ UpdateUpdatedAt(p)
        \/ UpdateCellFails(p)

\* Two concurrent writers of the gifts worksheet; an update_cell call may fail.
Spec == Init /\ [][GiftsNext]_vars

ReadNext ==
    \E p \in Procs :
        \/ \E gifts \in GiftBatches : RegisterGiftsOpen(p, gifts)
        \/ RegisterCheckHeader(p)
        \/ RegisterWriteHeader(p)
        \/ RegisterGiftsAppend(p)
        \/ \E id \in GiftIds : UpdateGiftPurchasedOpen(p, id, "Ana")
        \/ UpdateGiftPurchasedFind(p)
        \/ UpdateAvailable(p)
        \/ UpdatePurchased(p)
        \/ UpdateUpdatedAt(p)
        \/ \E page \in 1..2 : ListAvailableGiftsOpen(p, page, 1)
        \/ ListAvailableGiftsRecords(p)
        \/ \E id \in GiftIds \cup {"id"} : GetGiftByIdOpen(p, id)
        \/ GetGiftByIdFind(p)
        \/ GetGiftByIdRow(p)
        \/ GetGiftByIdHeaders(p)

\* Writers and readers of the gifts worksheet, every remote call succeeding.
SpecRead == Init /\ [][ReadNext]_vars

RsvpNext ==
    \E p \in Procs :
        \/ \E rsvp_data \in RsvpRequests : RegisterRsvpOpen(p, rsvp_data)
        \/ RegisterCheckHeader(p)
        \/ RegisterWriteHeader(p)
        \/ RegisterRsvpAppend(p)
        \/ \E status \in {"confirmed", "declined"} : ListRsvpsOpen(p, status)
        \/ ListRsvpsRecords(p)

\* Two concurrent clients of the rsvp worksheet.
SpecRsvp == Init /\ [][RsvpNext]_vars

SheetsNext ==
    \E p \in Procs :
        \/ RegisterRsvpOpen(p, [full_name |-> "Eva", status |-> "confirmed", phone |-> 5511, companions |-> None])
        \/ RegisterGiftsOpen(p, <<GiftRequest("Toaster")>>)
        \/ \E testimonial \in TestimonialRequests : RegisterTestimonialOpen(p, testimonial)
        \/ RegisterCheckHeader(p)
        \/ RegisterWriteHeader(p)
        \/ RegisterRsvpAppend(p)
        \/ RegisterGiftsAppend(p)
        \/ RegisterTestimonialAppend(p)
        \/ ListRsvpsOpen(p, "confirmed")
        \/ ListRsvpsRecords(p)
        \/ ListAvailableGiftsOpen(p, 1, 1)
        \/ ListAvailableGiftsRecords(p)
        \/ ListTestimonialsOpen(p, 1, 1)
        \/ ListTestimonialsRecords(p)
        \/ UpdateGiftPurchasedOpen(p, NewUuid(1), "Ana")
        \/ UpdateGiftPurchasedFind(p)
        \/ UpdateAvailable(p)
        \/ UpdatePurchased(p)
        \/ UpdateUpdatedAt(p)
        \/ GetGiftByIdOpen(p, NewUuid(1))
        \/ GetGiftByIdFind(p)
        \/ GetGiftByIdRow(p)
        \/ GetGiftByIdHeaders(p)

\* Two concurrent clients of all three worksheets, each starting absent.
SpecSheets == Init /\ [][SheetsNext]_vars

(********************** list_available as a function ***********************)
\* the gift rows a worksheet can hold: identifiers in order of registration,
\* a purchased gift with its buyer
PageRow(i, n, purchased) ==
    <<NewUuid(i), n, GiftRequest(n).image_url, BoolCell(purchased = NoneCell), purchased, TimeStr(i)>>
PageCells == {<<Names[i], b>> : i \in 1..Len(Names), b \in {NoneCell, "Ana"}}
PageSheets ==
    UNION {{<<GiftHeaders>> \o [i \in 1..k |-> PageRow(i, f[i][1], f[i][2])] : f \in [1..k -> PageCells]} :
           k \in 0..MaxPageRows}
PageRange == (0 - MaxPageRows)..(MaxPageRows + 1)

InitPage ==
    /\ exists = {"gifts"}
    /\ sheet \in {[w \in Worksheets |-> IF w = "gifts" THEN s ELSE <<>>] : s \in PageSheets}
    /\ now = MaxPageRows
    /\ op = [p \in Procs |-> "none"]
    /\ pc = [p \in Procs |-> "idle"]
    /\ arg = [p \in Procs |-> NoArg]
    /\ loc = [p \in Procs |-> NoLoc]
    /\ res = [p \in Procs |-> NoRes]

PageNext ==
    \/ \E page \in PageRange, limit \in 1..MaxLimit : ListAvailableGiftsOpen("a", page, limit)
    \/ ListAvailableGiftsRecords("a")

\* One client lists the gifts of any registered sheet with any page and limit.
SpecPage == InitPage /\ [][PageNext]_vars

(******************************* claims ************************************)
Gifts == sheet["gifts"]
\* the identifiers of the registered gifts: column 1 of the data rows
RegisteredIds(s) == {s[i][1] : i \in 2..Len(s)}
Listed(s, page, limit) ==
    LET body == ListAvailableGifts(s, page, limit) IN {body[k].id : k \in 1..Len(body)}
ListedAnywhere(s, id) == \E page \in PageRange, limit \in 1..MaxLimit : id \in Listed(s, page, limit)
Purchased(p) == op[p] = "update_gift_purchased" /\ pc[p] = "done" /\ res[p].status = 202

\* after a successful purchase: off every page, still found by id
C1_AfterPurchase ==
    \A p \in Procs :
        Purchased(p) =>
            /\ ~ListedAnywhere(Gifts, arg[p].id)
            /\ LET got == GetGiftById(Gifts, arg[p].id)
               IN  /\ got.status = 200
                   /\ got.body.id = arg[p].id
                   /\ got.body = [id |-> arg[p].id, name |-> got.body.name,
                                  image_url |-> GiftRequest(got.body.name).image_url]
                   /\ \E i \in 1..Len(Names) : got.body.name = Names[i]
\* no step changes what get_by_id returns for a gift or lists a gift again
C1_Step ==
    \/ Gifts' = Gifts
    \/ /\ \A id \in RegisteredIds(Gifts) : GetGiftById(Gifts', id) = GetGiftById(Gifts, id)
       /\ \A id \in RegisteredIds(Gifts) : ~ListedAnywhere(Gifts, id) => ~ListedAnywhere(Gifts', id)
\* C1: once mark_purchased(g.id, name) has returned success, g is on no page of
\* list_available, whatever the page and limit, and stays off them; get_by_id(g.id)
\* still succeeds with g's id and the name and image_url g was registered with,
\* which no step changes.
C1_PurchasedGiftHiddenButFound == [](C1_AfterPurchase) /\ [][C1_Step]_vars
\* a purchase has succeeded, a reader has since fetched the gift by its id, and
\* another gift is still listed
C1_Witness ==
    \E p \in Procs, q \in Procs :
        /\ Purchased(p)
        /\ op[q] = "get_gift_by_id" /\ pc[q] = "done" /\ res[q].status = 200
        /\ arg[q].id = arg[p].id /\ res[q].body.id = arg[p].id
        /\ Gifts[loc[p].row][ColPurchased] = arg[p].purchased
        /\ Listed(Gifts, 1, 1) # {}

\* the 1-based position of data row i in the name-sorted available gifts
AvailableRows(s) == {i \in 2..Len(s) : s[i][ColAvailable] = "TRUE"}
Position(s, i) ==
    1 + Cardinality({j \in AvailableRows(s) :
                        \/ NameRank(s[j][2]) < NameRank(s[i][2])
                        \/ s[j][2] = s[i][2] /\ j < i})
\* C2: for page >= 1 and limit >= 1, list_available(page, limit) returns exactly
\* the gifts at 1-based positions (page-1)*limit+1 .. page*limit of the gifts whose
\* available cell is "TRUE", in ascending order of name (gifts of one name in
\* sheet order), fewer or none when there are fewer, each as {id, name, image_url}.
C2_PageIsSliceOfSortedAvailable ==
    \A p \in Procs :
        (op[p] = "list_available_gifts" /\ pc[p] = "done" /\ arg[p].page >= 1 /\ arg[p].limit >= 1) =>
            LET n == Cardinality(AvailableRows(Gifts))
                first == (arg[p].page - 1) * arg[p].limit + 1
                count == IF n < first THEN 0
                         ELSE IF n - first + 1 < arg[p].limit THEN n - first + 1 ELSE arg[p].limit
                body == res[p].body
            IN  /\ res[p].status = 200
                /\ Len(body) = count
                /\ \A k \in 1..count :
                     \E i \in AvailableRows(Gifts) :
                        /\ Position(Gifts, i) = first + k - 1
                        /\ body[k] = [id |-> Gifts[i][1], name |-> Gifts[i][2], image_url |-> Gifts[i][3]]
\* page 2 with limit 1 of a sheet whose second available gift by name is not
\* its second row, a purchased gift left out
C2_Witness ==
    /\ op["a"] = "list_available_gifts" /\ pc["a"] = "done"
    /\ arg["a"].page = 2 /\ arg["a"].limit = 1
    /\ Len(res["a"].body) = 1
    /\ Len(Gifts) = 4 /\ Gifts[2][ColAvailable] = "FALSE"
    /\ res["a"].body[1].id = Gifts[3][1]
    /\ NameRank(Gifts[4][2]) < NameRank(Gifts[3][2])

\* C3: for every limit >= 1 and every page out of range (page < 1, or
\* page > ceil(n/limit) with n the number of available gifts), list_available
\* returns the empty list and never an error.
C3_OutOfRangePageIsEmpty ==
    \A p \in Procs :
        (op[p] = "list_available_gifts" /\ pc[p] = "done" /\ arg[p].limit >= 1) =>
            LET n == Cardinality(AvailableRows(Gifts))
            IN  (arg[p].page < 1 \/ (arg[p].page - 1) * arg[p].limit >= n) =>
                    res[p].status = 200 /\ res[p].body = <<>>

\* C4: after register(...) has succeeded, list(status) with the submitted status
\* holds a record of the submission whose companions value is the submitted one
\* (absent, the empty list or a list of companions), the records in append order.
C4_CompanionsRoundTrip ==
    \A p \in Procs :
        (op[p] = "register_rsvp" /\ pc[p] = "done" /\ res[p].status = 201) =>
            LET rsvp_data == arg[p].rsvp_data
                listed == ListRsvps(sheet["rsvp"], rsvp_data.status)
            IN  \E k \in 1..Len(listed) :
                    /\ listed[k].full_name = rsvp_data.full_name
                    /\ listed[k].status = rsvp_data.status
                    /\ listed[k].phone = rsvp_data.phone
                    /\ listed[k].companions = rsvp_data.companions

\* C5: for an id that is the identifier of no registered gift, mark_purchased and
\* get_by_id both end with not-found, and no cell of the gifts worksheet is
\* written by the request.
C5_UnknownIdIsNotFound ==
    \A p \in Procs :
        (op[p] \in {"update_gift_purchased", "get_gift_by_id"} /\ pc[p] = "done"
            /\ arg[p].id \notin RegisteredIds(Gifts)) =>
                res[p].status = 404

FirstRowIsHeader(w) == RowValues(sheet[w], 1) = HeadersOf(w)
\* C6 as stated: after any sequence of requests, none in flight, the first row of
\* each worksheet is its canonical header row.
C6_FirstRowAlwaysHeader ==
    (\A p \in Procs : Free(p)) => \A w \in exists : FirstRowIsHeader(w)
\* C6 as amended: the first row of each worksheet is empty (nothing has been
\* registered: the worksheet is absent or was created by a reader) or its
\* canonical header row; a register request that has passed its header check
\* and write appends below the header, so no data row is ever in row 1.
C6_HeaderBeforeData ==
    /\ \A w \in Worksheets : sheet[w] = <<>> \/ FirstRowIsHeader(w)
    /\ \A w \in Worksheets : w \notin exists => sheet[w] = <<>>
    /\ \A p \in Procs :
        (op[p] \in Registers /\ pc[p] \in {"append", "done"}) => FirstRowIsHeader(WorksheetOf(op[p]))
\* both clients have registered in the rsvp worksheet, which now holds its
\* header and their two rows, while the testimonials worksheet, only read, is empty
C6_Witness ==
    /\ \A p \in Procs : op[p] = "register_rsvp" /\ pc[p] = "done"
    /\ Len(sheet["rsvp"]) = 3 /\ FirstRowIsHeader("rsvp")
    /\ "testimonials" \in exists /\ sheet["testimonials"] = <<>>

\* C7: two mark_purchased calls for one gift are not serialized; when both have
\* returned success the row reads available FALSE, the buyer of one of the two
\* calls and the timestamp of one of the two calls, not necessarily the same call.
C7_BothCallsSucceed ==
    \A p \in Procs, q \in Procs :
        (p # q /\ Purchased(p) /\ Purchased(q) /\ arg[p].id = arg[q].id) =>
            LET row == Gifts[loc[p].row]
            IN  /\ loc[q].row = loc[p].row
                /\ row[ColAvailable] = "FALSE"
                /\ row[ColPurchased] \in {arg[p].purchased, arg[q].purchased}
                /\ row[ColUpdatedAt] \in {TimeStr(loc[p].ts), TimeStr(loc[q].ts)}
\* both calls returned success and the row holds one call's buyer with the
\* other call's timestamp
C7_Witness ==
    \E p \in Procs, q \in Procs :
        /\ p # q /\ Purchased(p) /\ Purchased(q) /\ arg[p].id = arg[q].id
        /\ arg[p].purchased # arg[q].purchased
        /\ Gifts[loc[p].row][ColPurchased] = arg[p].purchased
        /\ Gifts[loc[p].row][ColUpdatedAt] = TimeStr(loc[q].ts)
        /\ loc[p].ts # loc[q].ts

FailedAfterFirstWrite(p) ==
    op[p] = "update_gift_purchased" /\ pc[p] = "done" /\ res[p].status = 500 /\ loc[p].step \in {2, 3}
\* a failed call's first write stays in the sheet
C8_Inv == \A p \in Procs : FailedAfterFirstWrite(p) => Gifts[loc[p].row][ColAvailable] = "FALSE"
\* a failing write ends the call with an error and changes no cell
C8_Step ==
    \A p \in Procs :
        /\ (pc[p] \in {"cell5", "cell6"} /\ pc'[p] = "done" /\ res'[p].status # 202) =>
                res'[p].status = 500 /\ sheet' = sheet
        /\ (op'[p] = "update_gift_purchased" /\ pc[p] # "done" /\ pc'[p] = "done" /\ res'[p].status = 202) =>
                pc[p] = "cell6" /\ Gifts'[loc[p].row][ColUpdatedAt] = TimeStr(now')
\* C8: mark_purchased is not atomic; a call whose second or third write fails
\* does not return success, writes nothing more and undoes nothing, so the gift
\* stays available=FALSE with its purchased or updated_at cell not written;
\* success is returned only by the third write.
C8_NoRollback == [](C8_Inv) /\ [][C8_Step]_vars
\* the second write failed, no request is in flight, and the gift is off the
\* list with no buyer recorded
C8_Witness ==
    \E p \in Procs :
        /\ FailedAfterFirstWrite(p) /\ loc[p].step = 2
        /\ \A q \in Procs : Free(q)
        /\ Gifts[loc[p].row][ColAvailable] = "FALSE"
        /\ Gifts[loc[p].row][ColPurchased] = NoneCell
        /\ ~ListedAnywhere(Gifts, arg[p].id)
        /\ GetGiftById(Gifts, arg[p].id).status = 200

\* the steps of mark_purchased on a row it found, whatever the row holds
C9_Step ==
    \A p \in Procs :
        op[p] = "update_gift_purchased" =>
            /\ (pc[p] = "find" /\ pc'[p] # "find" /\ arg[p].id \in RegisteredIds(Gifts)) =>
                    pc'[p] = "cell4" /\ Gifts[loc'[p].row][1] = arg[p].id
            /\ (pc[p] = "cell5" /\ pc'[p] = "cell6") =>
                    /\ Gifts'[loc[p].row][ColPurchased] = arg[p].purchased
                    /\ Gifts'[loc[p].row][ColAvailable] = "FALSE"
            /\ (pc[p] = "cell6" /\ pc'[p] = "done" /\ res'[p].status = 202) =>
                    /\ Gifts'[loc[p].row][ColUpdatedAt] # Gifts[loc[p].row][ColUpdatedAt]
                    /\ Gifts'[loc[p].row][ColUpdatedAt] = TimeStr(now')
                    /\ Gifts'[loc[p].row][ColAvailable] = "FALSE"
\* C9: a gift already purchased is not protected; mark_purchased finds its row
\* and goes on whatever the row holds, its second write puts its buyer in the
\* purchased cell, its third write puts a new timestamp in updated_at and returns
\* success, and available stays FALSE.
C9_SecondPurchaseOverwrites == [][C9_Step]_vars
\* two successful purchases of one gift by different buyers, the later one's
\* buyer and timestamp in the row
C9_Witness ==
    \E p \in Procs, q \in Procs :
        /\ p # q /\ Purchased(p) /\ Purchased(q) /\ arg[p].id = arg[q].id
        /\ arg[p].purchased # arg[q].purchased
        /\ loc[p].ts < loc[q].ts
        /\ Gifts[loc[q].row][ColAvailable] = "FALSE"
        /\ Gifts[loc[q].row][ColPurchased] = arg[q].purchased
        /\ Gifts[loc[q].row][ColUpdatedAt] = TimeStr(loc[q].ts)

\* what every step keeps of the gift rows
C10_Step ==
    /\ Len(Gifts') >= Len(Gifts)
    /\ \A i \in 2..Len(Gifts) : Gifts[i][ColAvailable] = "FALSE" => Gifts'[i][ColAvailable] = "FALSE"
    /\ \A p \in Procs :
        (op[p] = "register_gifts" /\ pc[p] # pc'[p] /\ ~Free(p)) =>
            \A i \in 2..Len(Gifts) : Gifts'[i] = Gifts[i]
\* C10: availability is monotone; no step sets an available cell that reads FALSE
\* back to "TRUE" or removes a row, and a step of register_gifts leaves every
\* existing gift row as it was.
C10_AvailabilityMonotone == [][C10_Step]_vars
\* a gift registered after another was purchased: the old row still FALSE, the
\* new row below it "TRUE" with a later timestamp
C10_Witness ==
    \E i \in 2..Len(Gifts), j \in 2..Len(Gifts) :
        /\ i < j
        /\ Gifts[i][ColAvailable] = "FALSE" /\ Gifts[i][ColPurchased] # NoneCell
        /\ Gifts[j][ColAvailable] = "TRUE"
        /\ \E t \in 1..MaxClock, u \in 1..MaxClock :
              t < u /\ Gifts[i][ColUpdatedAt] = TimeStr(t) /\ Gifts[j][ColUpdatedAt] = TimeStr(u)
        /\ \E p \in Procs : op[p] = "register_gifts" /\ pc[p] = "done"

====
